---- MODULE Spec2Model ----
(***************************************************************************)
(* State-machine model of the two Ranker classes of src/src/Ranker.ts:     *)
(*   - the random-pair Ranker       (lines 3-260),   cls = "RandomPair"     *)
(*   - the weighted-selector Ranker (lines 267-594), cls = "Weighted"       *)
(*                                                                         *)
(* Numbers.  Ratings are JavaScript doubles in the source.  Here a rating  *)
(* is an integer number of thousandths of a rating point and a score is an *)
(* integer number of thousandths (1000 = 1.0), so "R + K * (S - E)" is      *)
(* exact once E is known; E itself is computed from a 17-entry table of     *)
(* 10^(i/16) with linear interpolation and truncating division, which      *)
(* rounds (and saturates to exactly 0 or 1 at large gaps) as the doubles    *)
(* do, at a coarser grain.                                                  *)
(*                                                                         *)
(* Optional values (number | null, number | undefined) are sequences of    *)
(* length 0 or 1.  A Map is a sequence of item records in insertion order. *)
(***************************************************************************)
EXTENDS Integers, Sequences, FiniteSets, TLC

VARIABLES cls, config, items, recentRatingChanges, sortedItems, clock, ret

vars == <<cls, config, items, recentRatingChanges, sortedItems, clock, ret>>

-----------------------------------------------------------------------------
(* Bounds of the model *)

\* mutating calls made on a weighted-selector Ranker
MaxStepsWeighted == 3
\* mutating calls made on a random-pair Ranker
MaxStepsRandomPair == 6
\* config.stableComparisonsThreshold passed to the weighted-selector Ranker
StableThresholdWeighted == 1
\* config.minimumComparisons passed to the weighted-selector Ranker
MinComparisonsWeighted == 2
\* comparisons made between the two items of a random-pair Ranker that holds two
MaxStepsDuel == 10
\* config.stableComparisonsThreshold passed to the random-pair Ranker whose item is
\* removed and added again
StableThresholdReadd == 12
\* accepted mutating calls on that Ranker
MaxStepsReadd == 14

IdsWeighted == {"a", "b", "c"}
IdsRandomPair == {"a", "b"}
Results == {"win", "loss", "tie"}

\* the initialRating argument: omitted, 0, or a rating above the default
InitialRatings == {<<>>, <<0>>}

\* time elapsed between the last mutating call and a getNextComparison call, in days
Delays == {0, 7}

-----------------------------------------------------------------------------
(* Arithmetic helpers *)

Abs(x) == IF x < 0 THEN -x ELSE x
Max(x, y) == IF x >= y THEN x ELSE y
Min(x, y) == IF x <= y THEN x ELSE y
Sign(x) == IF x > 0 THEN 1 ELSE IF x < 0 THEN -1 ELSE 0

\* "v || d" on an optional value: a given 0 gives way to the default as well
Coalesce_Falsy(v, d) == IF v = <<>> \/ v = <<0>> THEN d ELSE v[1]

\* JavaScript "v ?? d" on an optional value
Coalesce(v, d) == IF v = <<>> THEN d ELSE v[1]
\* JavaScript "v || d" on a number
OrElse(v, d) == IF v = 0 THEN d ELSE v

\* 1000 * 10^(i/16), i = 0..16
Pow10Table == <<1000, 1155, 1334, 1540, 1778, 2054, 2371, 2738, 3162,
                3652, 4217, 4870, 5623, 6494, 7499, 8660, 10000>>

RECURSIVE TenTo(_)
TenTo(q) == IF q = 0 THEN 1 ELSE 10 * TenTo(q - 1)

\* 1000 * Math.pow(10, x / 400) for a gap x >= 0 given in thousandths of a point,
\* x < 2400000
Pow10Milli(x) ==
    LET q == x \div 400000
        r == x % 400000
        i == r \div 25000
        f == r % 25000
        m == Pow10Table[i + 1]
               + ((Pow10Table[i + 2] - Pow10Table[i + 1]) * f) \div 25000
    IN  m * TenTo(q)

\* 1000 * Math.pow(10, d / 400) for d >= 0 in thousandths of a point; <<>> is Infinity
Pow10(d) == IF d >= 2400000 THEN <<>> ELSE <<Pow10Milli(d)>>

\* 1 / (1 + Math.pow(10, d / 400)) for a gap d >= 0, in thousandths, rounded down
ExpectedAgainstStronger(d) ==
    LET p == Pow10(d)
    IN  IF p = <<>> THEN 0 ELSE 1000000 \div (1000 + p[1])

\* the exponent taken as (rating1 - rating2) / 400: the expected scores of the two
\* sides change places
getExpectedScore_Swapped(rating1, rating2) ==
    IF rating1 >= rating2 THEN ExpectedAgainstStronger(rating1 - rating2)
    ELSE 1000 - ExpectedAgainstStronger(rating2 - rating1)

\* getExpectedScore: 1 / (1 + Math.pow(10, (rating2 - rating1) / 400)), in thousandths;
\* the two sides of one gap add up to exactly 1
getExpectedScore(rating1, rating2) ==
    IF rating2 >= rating1 THEN ExpectedAgainstStronger(rating2 - rating1)
    ELSE 1000 - ExpectedAgainstStronger(rating1 - rating2)

-----------------------------------------------------------------------------
(* Sequences *)

RECURSIVE SeqFilterOut(_, _)
\* the items of s whose id is not id, in order
SeqFilterOut(s, id) ==
    IF s = <<>> THEN <<>>
    ELSE IF Head(s).id = id THEN SeqFilterOut(Tail(s), id)
    ELSE <<Head(s)>> \o SeqFilterOut(Tail(s), id)

\* Map.has
Has(its, id) == \E i \in 1..Len(its) : its[i].id = id
\* index of a key of the Map
IndexOf(its, id) == CHOOSE i \in 1..Len(its) : its[i].id = id
\* Map.get of a key the Map has
Get(its, id) == its[IndexOf(its, id)]
IdsOf(its) == {its[i].id : i \in 1..Len(its)}

RECURSIVE InsertByKey_BeforeEquals(_, _)
\* p placed before the first element whose key is >= p.k: equal keys change places
InsertByKey_BeforeEquals(s, p) ==
    IF s = <<>> THEN <<p>>
    ELSE IF Head(s).k < p.k THEN <<Head(s)>> \o InsertByKey_BeforeEquals(Tail(s), p)
    ELSE <<p>> \o s

RECURSIVE InsertByKey(_, _)
\* p placed after every element of the sorted sequence s whose key is <= p.k
InsertByKey(s, p) ==
    IF s = <<>> THEN <<p>>
    ELSE IF Head(s).k <= p.k THEN <<Head(s)>> \o InsertByKey(Tail(s), p)
    ELSE <<p>> \o s

RECURSIVE StableSort(_)
\* Array.prototype.sort (stable) of a sequence of [k, v] by ascending k
StableSort(s) ==
    IF s = <<>> THEN <<>>
    ELSE InsertByKey(StableSort(SubSeq(s, 1, Len(s) - 1)), s[Len(s)])

\* items.sort((a, b) => a.comparisons - b.comparisons)
SortByComparisons(its) ==
    LET keyed == [i \in 1..Len(its) |-> [k |-> its[i].comparisons, v |-> its[i]]]
        sorted == StableSort(keyed)
    IN  [i \in 1..Len(its) |-> sorted[i].v]

\* items.sort((a, b) => b.currentRating - a.currentRating)
SortByRatingDesc(its) ==
    LET keyed == [i \in 1..Len(its) |-> [k |-> -(its[i].currentRating), v |-> its[i]]]
        sorted == StableSort(keyed)
    IN  [i \in 1..Len(its) |-> sorted[i].v]

-----------------------------------------------------------------------------
(* Configuration *)

\* the config object the weighted-selector constructor builds (ratings in thousandths)
WeightedConfig ==
    [kFactor |-> 32,
     ratingChangeThreshold |-> 5000,
     stableComparisonsThreshold |-> StableThresholdWeighted,
     minimumComparisons |-> MinComparisonsWeighted,
     defaultInitialRating |-> 1500000,
     minRating |-> 1490000]

\* a new item as addItem builds it
NewItem(id, rating) ==
    [id |-> id, initialRating |-> rating, currentRating |-> rating,
     comparisons |-> 0, wins |-> 0, losses |-> 0, ties |-> 0,
     stable |-> FALSE, lastComparisonTime |-> <<>>]

\* what the last constructor, addItem, removeItem or addComparisonResult call left
\* behind: the method, the error it threw ("none" when it returned) and the value it
\* returned (<<>> for undefined).  The read-only methods are operators of the state.
Returned(op, args, val) == [op |-> op, err |-> "none", val |-> val]
Threw(op, args, err) == [op |-> op, err |-> err, val |-> <<>>]

\* the constructor returned an object
Constructed == ~(ret.op = "constructor" /\ ret.err # "none")

MaxSteps == IF cls = "Weighted" THEN MaxStepsWeighted ELSE MaxStepsRandomPair
Ids == IF cls = "Weighted" THEN IdsWeighted ELSE IdsRandomPair

\* the entry deleted and set again: the item moves to the end of the Map
Put_DeleteAndSet(its, it) == Append(SeqFilterOut(its, it.id), it)

\* item i of the Map replaced by the record it
Put(its, it) == [its EXCEPT ![IndexOf(its, it.id)] = it]

\* the score of the first item: win 1, loss 0, tie 0.5
ActualScore(result) ==
    IF result = "win" THEN 1000 ELSE IF result = "loss" THEN 0 ELSE 500
\* the same comparison seen from the second item
Opposite(result) ==
    IF result = "win" THEN "loss" ELSE IF result = "loss" THEN "win" ELSE "tie"

\* a switch whose "win" case lacks its break and falls into the "loss" case
CountOutcome_MissingBreak(item, outcome) ==
    IF outcome = "win" THEN [item EXCEPT !.wins = @ + 1, !.losses = @ + 1]
    ELSE IF outcome = "loss" THEN [item EXCEPT !.losses = @ + 1]
    ELSE [item EXCEPT !.ties = @ + 1]

\* item.wins++ / item.losses++ / item.ties++
CountOutcome(item, outcome) ==
    IF outcome = "win" THEN [item EXCEPT !.wins = @ + 1]
    ELSE IF outcome = "loss" THEN [item EXCEPT !.losses = @ + 1]
    ELSE [item EXCEPT !.ties = @ + 1]

-----------------------------------------------------------------------------
(* The weighted-selector Ranker, src/src/Ranker.ts lines 267-594 *)

W_addItemError(its, id) == IF Has(its, id) THEN "Duplicate" ELSE "none"

\* this.items.set made before the duplicate test: a registered item is replaced by
\* a new one
W_addItemItems_SetsFirst(its, id, initialRating) ==
    LET item == NewItem(id, Coalesce(initialRating, WeightedConfig.defaultInitialRating))
    IN  IF Has(its, id) THEN [its EXCEPT ![IndexOf(its, id)] = item]
        ELSE Append(its, item)

\* the Map after addItem(id, initialRating); the rating is
\* initialRating ?? config.defaultInitialRating (a number, so the "?? 1500" is dead)
W_addItemItems(its, id, initialRating) ==
    IF W_addItemError(its, id) # "none" THEN its
    ELSE Append(its, NewItem(id, Coalesce(initialRating,
                                          WeightedConfig.defaultInitialRating)))

W_removeItemError(its, id) == IF ~Has(its, id) THEN "NotFound" ELSE "none"

\* the most recently inserted item deleted instead of the one named
W_removeItemItems_DeletesLast(its, id) ==
    IF ~Has(its, id) THEN its ELSE SubSeq(its, 1, Len(its) - 1)

\* the Map after removeItem(id)
W_removeItemItems(its, id) ==
    IF W_removeItemError(its, id) # "none" THEN its ELSE SeqFilterOut(its, id)

\* oldRating + (kFactor || 32) * (actualScore - expectedScore)
W_calculateNewRating(oldRating, actualScore, expectedScore) ==
    oldRating + OrElse(WeightedConfig.kFactor, 32) * (actualScore - expectedScore)

\* the flag set only while the rating stays within ratingChangeThreshold of the
\* initial rating
W_updateStability_SmallChangeOnly(item) ==
    IF ~item.stable
       /\ item.comparisons >= OrElse(WeightedConfig.stableComparisonsThreshold, 10)
       /\ Abs(item.currentRating - item.initialRating) <= WeightedConfig.ratingChangeThreshold
    THEN [item EXCEPT !.stable = TRUE]
    ELSE item

W_updateStability(item) ==
    IF ~item.stable
       /\ item.comparisons >= OrElse(WeightedConfig.stableComparisonsThreshold, 10)
    THEN [item EXCEPT !.stable = TRUE]
    ELSE item

\* the self-comparison test made on the ids of the call, before the lookups
W_addComparisonResultError_IdsFirst(its, itemId1, itemId2) ==
    IF itemId1 = itemId2 THEN "SelfComparison"
    ELSE IF ~Has(its, itemId1) \/ ~Has(its, itemId2) THEN "NotFound"
    ELSE "none"

\* the error addComparisonResult throws, "none" when it throws nothing
W_addComparisonResultError(its, itemId1, itemId2) ==
    IF ~Has(its, itemId1) \/ ~Has(its, itemId2) THEN "NotFound"
    ELSE IF Get(its, itemId1).id = Get(its, itemId2).id THEN "SelfComparison"
    ELSE "none"

\* the item updated without item.comparisons++
W_updatedItem_NoCount(item, outcome, expectedScore, timestamp) ==
    LET counted == CountOutcome(item, outcome)
        newRating == W_calculateNewRating(item.currentRating, ActualScore(outcome),
                                          expectedScore)
    IN  W_updateStability(
          [counted EXCEPT !.currentRating = Max(newRating, OrElse(WeightedConfig.minRating, 0)),
                          !.lastComparisonTime = <<timestamp>>])

\* one of the two items after an accepted comparison
W_updatedItem(item, outcome, expectedScore, timestamp) ==
    LET counted == CountOutcome(item, outcome)
        newRating == W_calculateNewRating(item.currentRating, ActualScore(outcome),
                                          expectedScore)
    IN  W_updateStability(
          [counted EXCEPT !.currentRating = Max(newRating, OrElse(WeightedConfig.minRating, 0)),
                          !.comparisons = @ + 1,
                          !.lastComparisonTime = <<timestamp>>])

\* the Map after an accepted comparison of two registered items
W_comparedItems(its, itemId1, itemId2, result, timestamp) ==
    LET item1 == Get(its, itemId1)
        item2 == Get(its, itemId2)
        expectedScore1 == getExpectedScore(item1.currentRating, item2.currentRating)
        expectedScore2 == 1000 - expectedScore1
    IN  Put(Put(its, W_updatedItem(item1, result, expectedScore1, timestamp)),
            W_updatedItem(item2, Opposite(result), expectedScore2, timestamp))

\* the outcome counted on the first item as soon as it is looked up, before the
\* not-found and self-comparison checks
W_addComparisonResultItems_CountsBeforeChecks(its, itemId1, itemId2, result, timestamp) ==
    IF W_addComparisonResultError(its, itemId1, itemId2) = "none"
    THEN W_comparedItems(its, itemId1, itemId2, result, timestamp)
    ELSE IF Has(its, itemId1) THEN Put(its, CountOutcome(Get(its, itemId1), result))
    ELSE its

\* the Map after addComparisonResult({itemId1, itemId2, result, timestamp})
W_addComparisonResultItems(its, itemId1, itemId2, result, timestamp) ==
    IF W_addComparisonResultError(its, itemId1, itemId2) # "none" THEN its
    ELSE W_comparedItems(its, itemId1, itemId2, result, timestamp)

\* undefined: the method is declared void and has no return statement
W_addComparisonResultValue(its, itemId1, itemId2, result) == <<>>

\* 1 when never compared, else min((now - lastComparisonTime) / 7 days, 1), in thousandths
W_getTimeScore(item, now) ==
    IF item.lastComparisonTime = <<>> \/ item.lastComparisonTime = <<0>> THEN 1000
    ELSE Min(((now - item.lastComparisonTime[1]) * 1000) \div 7, 1000)

\* 0.4 ratingScore + 0.3 comparisonScore + 0.2 timeScore + 0.1 stabilityScore, times 10000
W_calculateOpponentScore(item, opponent, now) ==
    LET ratingDifference == Abs(item.currentRating - opponent.currentRating)
        comparisonDifference == Abs(item.comparisons - opponent.comparisons)
        ratingScore == (1000 * 400000) \div (400000 + ratingDifference)
        comparisonScore == 1000 \div (1 + comparisonDifference)
        timeScore == W_getTimeScore(opponent, now)
        stabilityScore == IF opponent.stable THEN 0 ELSE 1000
    IN  4 * ratingScore + 3 * comparisonScore + 2 * timeScore + 1 * stabilityScore

\* the item itself left among its potential opponents
W_findBestOpponent_Unfiltered(item, allItems, now) ==
    LET scoredOpponents ==
            [i \in 1..Len(allItems) |->
                [k |-> -W_calculateOpponentScore(item, allItems[i], now),
                 v |-> allItems[i]]]
    IN  StableSort(scoredOpponents)[1].v

\* the opponent with the highest score, the first such in allItems order
W_findBestOpponent(item, allItems, now) ==
    LET potentialOpponents == SeqFilterOut(allItems, item.id)
        scoredOpponents ==
            [i \in 1..Len(potentialOpponents) |->
                [k |-> -W_calculateOpponentScore(item, potentialOpponents[i], now),
                 v |-> potentialOpponents[i]]]
    IN  StableSort(scoredOpponents)[1].v

\* the first item of the Map taken as the least compared one, the array left unsorted
W_getNextComparison_Unsorted(its, now) ==
    IF Len(its) < 2 THEN <<>>
    ELSE LET leastComparedItem == its[1]
         IN  IF leastComparedItem.comparisons
                  >= OrElse(WeightedConfig.minimumComparisons, 0)
             THEN <<>>
             ELSE <<leastComparedItem.id,
                    W_findBestOpponent(leastComparedItem, its, now).id>>

\* <<>> for null, else <<id1, id2>>
W_getNextComparison(its, now) ==
    IF Len(its) < 2 THEN <<>>
    ELSE LET sorted == SortByComparisons(its)
             leastComparedItem == sorted[1]
         IN  IF leastComparedItem.comparisons
                  >= OrElse(WeightedConfig.minimumComparisons, 0)
             THEN <<>>
             ELSE <<leastComparedItem.id,
                    W_findBestOpponent(leastComparedItem, sorted, now).id>>

\* getItemStats: the error thrown ("none" when it returns) and a copy of the item
W_getItemStats(its, id) ==
    IF ~Has(its, id) THEN [err |-> "NotFound", val |-> <<>>]
    ELSE [err |-> "none", val |-> <<Get(its, id)>>]

\* getRankings: a fresh array of the items by descending rating, as their ids
W_getRankings(its) ==
    LET sorted == SortByRatingDesc(its) IN [i \in 1..Len(its) |-> sorted[i].id]

\* the ids of the items getProgress counts: those whose stable flag is set
W_stableItems(its) == {its[i].id : i \in {j \in 1..Len(its) : its[j].stable}}

\* the division made without the test for an empty Map: 0 / 0
W_getProgress_NoEmptyCase(its) == <<Cardinality(W_stableItems(its)), Len(its)>>

\* <<stable items, items>>: the fraction getProgress returns; 1 for an empty Map
W_getProgress(its) ==
    IF Len(its) = 0 THEN <<1, 1>>
    ELSE <<Cardinality(W_stableItems(its)), Len(its)>>

\* an initial item as the caller of the constructor writes it: a RankableItem whose
\* counters, flag and currentRating the caller has filled in
SuppliedItem(id, initialRating, currentRating, comparisons, stable) ==
    [id |-> id, initialRating |-> initialRating, currentRating |-> currentRating,
     comparisons |-> comparisons, wins |-> comparisons, losses |-> 0, ties |-> 0,
     stable |-> stable, lastComparisonTime |-> IF comparisons = 0 THEN <<>> ELSE <<1>>]

RECURSIVE W_constructItems_Spreads(_, _)
\* the initial items stored as { ...item, stable: false }, the way the random-pair
\* constructor stores them
W_constructItems_Spreads(its, initialItems) ==
    IF initialItems = <<>> THEN its
    ELSE W_constructItems_Spreads(
           Append(its, [Head(initialItems) EXCEPT
                          !.initialRating = Coalesce(@, WeightedConfig.defaultInitialRating),
                          !.stable = FALSE]),
           Tail(initialItems))

RECURSIVE W_constructItems(_, _)
\* initialItems.forEach((item) => this.addItem(item.id, item.initialRating))
W_constructItems(its, initialItems) ==
    IF initialItems = <<>> THEN its
    ELSE W_constructItems(
           W_addItemItems(its, Head(initialItems).id, Head(initialItems).initialRating),
           Tail(initialItems))

\* the constructor throws when an id of initialItems repeats
W_constructorError(initialItems) ==
    IF \E i, j \in 1..Len(initialItems) :
          i # j /\ initialItems[i].id = initialItems[j].id
    THEN "Duplicate" ELSE "none"

\* initial item lists handed to the weighted-selector constructor
InitialListsWeighted ==
    { <<>>,
      <<SuppliedItem("a", <<>>, 1500000, 0, FALSE), SuppliedItem("b", <<>>, 1500000, 0, FALSE),
        SuppliedItem("c", <<0>>, 0, 0, FALSE)>>,
      <<SuppliedItem("a", <<1516000>>, 1700000, 5, TRUE),
        SuppliedItem("b", <<>>, 1484000, 5, FALSE),
        SuppliedItem("c", <<1500000>>, 1500000, 0, FALSE)>>,
      <<SuppliedItem("a", <<>>, 1500000, 0, FALSE), SuppliedItem("a", <<0>>, 0, 0, FALSE)>> }

W_Init ==
    \E initialItems \in InitialListsWeighted :
        /\ cls = "Weighted"
        /\ config = WeightedConfig
        /\ items = IF W_constructorError(initialItems) # "none" THEN <<>>
                   ELSE W_constructItems(<<>>, initialItems)
        /\ recentRatingChanges = [id \in IdsWeighted |-> <<>>]
        /\ sortedItems = <<>>
        /\ clock = 1
        /\ ret = IF W_constructorError(initialItems) # "none"
                 THEN Threw("constructor", <<>>, W_constructorError(initialItems))
                 ELSE Returned("constructor", <<>>, <<>>)

W_addItem(id, initialRating) ==
    /\ cls = "Weighted" /\ Constructed
    /\ LET err == W_addItemError(items, id)
       IN  /\ err = "none" => clock <= MaxSteps
           /\ items' = W_addItemItems(items, id, initialRating)
           /\ clock' = IF err = "none" THEN clock + 1 ELSE clock
           /\ ret' = IF err = "none" THEN Returned("addItem", <<id>>, <<>>)
                     ELSE Threw("addItem", <<id>>, err)
    /\ UNCHANGED <<cls, config, recentRatingChanges, sortedItems>>

W_removeItem(id) ==
    /\ cls = "Weighted" /\ Constructed
    /\ LET err == W_removeItemError(items, id)
       IN  /\ err = "none" => clock <= MaxSteps
           /\ items' = W_removeItemItems(items, id)
           /\ clock' = IF err = "none" THEN clock + 1 ELSE clock
           /\ ret' = IF err = "none" THEN Returned("removeItem", <<id>>, <<>>)
                     ELSE Threw("removeItem", <<id>>, err)
    /\ UNCHANGED <<cls, config, recentRatingChanges, sortedItems>>

\* an addComparisonResult call; the caller passes the current time as
\* result.timestamp
W_addComparisonResultCall(itemId1, itemId2, result) ==
    /\ cls = "Weighted" /\ Constructed
    /\ LET err == W_addComparisonResultError(items, itemId1, itemId2)
       IN  /\ items' = W_addComparisonResultItems(items, itemId1, itemId2, result, clock)
           /\ clock' = IF err = "none" THEN clock + 1 ELSE clock
           /\ ret' = IF err = "none"
                     THEN Returned("addComparisonResult", <<itemId1, itemId2, result>>,
                            W_addComparisonResultValue(items, itemId1, itemId2, result))
                     ELSE Threw("addComparisonResult", <<itemId1, itemId2, result>>, err)
    /\ UNCHANGED <<cls, config, recentRatingChanges, sortedItems>>

\* the call, as long as the number of accepted mutating calls is within its bound
W_addComparisonResult(itemId1, itemId2, result) ==
    /\ W_addComparisonResultError(items, itemId1, itemId2) = "none" => clock <= MaxSteps
    /\ W_addComparisonResultCall(itemId1, itemId2, result)

\* the caller asks getNextComparison for a pair and records a comparison of exactly
\* that pair, with any outcome; the loop ends when getNextComparison returns null.
\* The loop is cut one comparison after items.size * minimumComparisons of them
W_FollowSuggestion ==
    \E delay \in Delays, result \in Results :
       LET pair == W_getNextComparison(items, clock + delay)
       IN  /\ pair # <<>>
           /\ clock - 1 <= Len(items) * OrElse(WeightedConfig.minimumComparisons, 0)
           /\ W_addComparisonResultCall(pair[1], pair[2], result)

W_NextLoop == W_FollowSuggestion

\* a getNextComparison call; Date.now() is the time of the last mutating call plus
\* delay.  It returns null or a pair and changes nothing
W_GetNextComparison(delay) ==
    /\ cls = "Weighted" /\ Constructed
    /\ Len(W_getNextComparison(items, clock + delay)) \in {0, 2}
    /\ UNCHANGED vars

\* a getProgress call: it returns a fraction and changes nothing
W_GetProgress ==
    /\ cls = "Weighted" /\ Constructed
    /\ W_getProgress(items)[1] <= W_getProgress(items)[2]
    /\ UNCHANGED vars

\* a getItemStats call: it returns an item or throws, and changes nothing
W_GetItemStats(id) ==
    /\ cls = "Weighted" /\ Constructed
    /\ W_getItemStats(items, id).err \in {"none", "NotFound"}
    /\ UNCHANGED vars

\* a getRankings call: it returns every item once and changes nothing
W_GetRankings ==
    /\ cls = "Weighted" /\ Constructed
    /\ Len(W_getRankings(items)) = Len(items)
    /\ UNCHANGED vars

\* neither class defines getItemHistory (README.md line 161 documents it): the call
\* throws a TypeError whatever the id
getItemHistory(its, id) == [err |-> "TypeError", val |-> <<>>]

GetItemHistory(id) ==
    /\ Constructed
    /\ getItemHistory(items, id).err # "none"
    /\ UNCHANGED vars

\* the read methods whose result the caller may go on to write to
ItemReaders == {"getItemStats", "getAllItems", "getRankings"}
\* the fields the caller writes, each with the value written
WrittenFields == {"currentRating", "stable"}

\* whether the item objects a method returns are the objects of the Map:
\* getItemStats returns { ...item }, getAllItems and getRankings return arrays built
\* from this.items.values() without copying the items
W_returnsRegistryObjects(method) == method \in {"getAllItems", "getRankings"}

\* the caller's assignment to a field of an item object: currentRating = 0 or
\* stable = true
W_written(item, field) ==
    IF field = "currentRating" THEN [item EXCEPT !.currentRating = 0]
    ELSE [item EXCEPT !.stable = TRUE]

\* the caller calls one of the read methods and assigns to a field of the object
\* returned for item id
W_WriteToReturned(method, id, field) ==
    /\ cls = "Weighted" /\ Constructed
    /\ Has(items, id)
    /\ clock <= MaxSteps
    /\ items' = IF W_returnsRegistryObjects(method)
                THEN Put(items, W_written(Get(items, id), field))
                ELSE items
    /\ UNCHANGED <<cls, config, recentRatingChanges, sortedItems, clock, ret>>

\* the calls of W_Next and the caller's writes to what the read methods returned
W_NextAliasing ==
    \/ \E id \in IdsWeighted, initialRating \in InitialRatings : W_addItem(id, initialRating)
    \/ \E id \in IdsWeighted : W_removeItem(id)
    \/ \E itemId1, itemId2 \in IdsWeighted, result \in Results :
          W_addComparisonResult(itemId1, itemId2, result)
    \/ \E method \in ItemReaders, id \in IdsWeighted, field \in WrittenFields :
          W_WriteToReturned(method, id, field)

\* distances, in thousandths of a point, between the rating of the first item of an
\* initial list and the ratings of the two others: 0.001 to 1300 points
RatingGaps == {1, 100, 1000, 16000, 400000, 1300000}

\* a weighted-selector Ranker constructed with item a at 1500, b below a and c above
W_InitGain ==
    \E below \in RatingGaps, above \in RatingGaps :
        /\ cls = "Weighted"
        /\ config = WeightedConfig
        /\ items = W_constructItems(<<>>,
                      <<[id |-> "a", initialRating |-> <<1500000>>],
                        [id |-> "b", initialRating |-> <<1500000 - below>>],
                        [id |-> "c", initialRating |-> <<1500000 + above>>]>>)
        /\ recentRatingChanges = [id \in IdsWeighted |-> <<>>]
        /\ sortedItems = <<>>
        /\ clock = 1
        /\ ret = Returned("constructor", <<>>, <<>>)

\* item a wins against one of the two others
W_NextGain ==
    \E itemId2 \in {"b", "c"} : W_addComparisonResult("a", itemId2, "win")

W_Next ==
    \/ \E id \in IdsWeighted, initialRating \in InitialRatings : W_addItem(id, initialRating)
    \/ \E id \in IdsWeighted : W_removeItem(id)
    \/ \E itemId1, itemId2 \in IdsWeighted, result \in Results :
          W_addComparisonResult(itemId1, itemId2, result)
    \/ \E delay \in Delays : W_GetNextComparison(delay)
    \/ W_GetProgress
    \/ W_GetRankings
    \/ \E id \in IdsWeighted : W_GetItemStats(id)
    \/ \E id \in IdsWeighted : GetItemHistory(id)

-----------------------------------------------------------------------------
(* The random-pair Ranker, src/src/Ranker.ts lines 3-260 *)

\* validateConfig of a value inside [min, max] (it throws on any other)
validateConfig(value, min, max, defaultValue) ==
    IF value = <<>> THEN defaultValue ELSE value[1]

\* the config object handed to the random-pair constructor (ratings in thousandths)
GivenConfigRandomPair ==
    [kFactor |-> <<32>>, ratingChangeThreshold |-> <<5000>>,
     stableComparisonsThreshold |-> <<5>>, minimumComparisons |-> <<10>>,
     defaultInitialRating |-> <<>>, minRating |-> <<1000000>>]

\* the same with a window of rating changes longer than minimumComparisons
GivenConfigReadd ==
    [GivenConfigRandomPair EXCEPT !.stableComparisonsThreshold = <<StableThresholdReadd>>]

\* the fields the random-pair constructor sets from the config object
RP_constructConfig(given) ==
    [kFactor |-> validateConfig(given.kFactor, 8, 64, 32),
     ratingChangeThreshold |-> validateConfig(given.ratingChangeThreshold, 1000, 20000, 5000),
     stableComparisonsThreshold |-> validateConfig(given.stableComparisonsThreshold, 5, 50, 10),
     minimumComparisons |-> validateConfig(given.minimumComparisons, 10, 100, 20),
     defaultInitialRating |-> validateConfig(given.defaultInitialRating,
                                             1000000, 2000000, 1500000),
     minRating |-> validateConfig(given.minRating, 0, 1000000, 0)]

\* this.kFactor ... this.minRating of the random-pair Ranker
RandomPairConfig == config

\* Array.from(this.items.values()).sort(...), as the ids of the sorted items
RP_getSortedItems(its) ==
    LET sorted == SortByRatingDesc(its) IN [i \in 1..Len(its) |-> sorted[i].id]

RECURSIVE RP_constructItems(_, _)
\* new Map(items.map((item) => [item.id, { ...item, stable: false }]))
RP_constructItems(its, initialItems) ==
    IF initialItems = <<>> THEN its
    ELSE LET item == [Head(initialItems) EXCEPT !.stable = FALSE]
         IN  RP_constructItems(IF Has(its, item.id) THEN Put(its, item)
                               ELSE Append(its, item),
                               Tail(initialItems))

RP_addItemError(its, id) == IF Has(its, id) THEN "Duplicate" ELSE "none"

RP_addItemItems(its, id, initialRating) ==
    IF RP_addItemError(its, id) # "none" THEN its
    ELSE Append(its, NewItem(id, Coalesce(initialRating,
                                          RandomPairConfig.defaultInitialRating)))

RP_removeItemError(its, id) == IF ~Has(its, id) THEN "NotFound" ELSE "none"

RP_removeItemItems(its, id) ==
    IF RP_removeItemError(its, id) # "none" THEN its ELSE SeqFilterOut(its, id)

\* kFactor * (score - expectedScore) * 400 / (ratingDifference + 400), towards zero
RP_ratingChange(currentRating, opponentRating, score) ==
    LET expectedScore == getExpectedScore(currentRating, opponentRating)
        raw == RandomPairConfig.kFactor * (score - expectedScore)
        ratingDifference == Abs(currentRating - opponentRating)
        damped == Sign(raw) * ((Abs(raw) * 4000) \div ((ratingDifference + 400000) \div 100))
    IN  IF score > expectedScore /\ damped < 0 THEN 0
        ELSE IF score < expectedScore /\ damped > 0 THEN 0
        ELSE damped

\* recentChanges.push(change); if longer than stableComparisonsThreshold, shift()
RP_pushChange(recentChanges, change) ==
    LET pushed == Append(recentChanges, change)
    IN  IF Len(pushed) > RandomPairConfig.stableComparisonsThreshold THEN Tail(pushed)
        ELSE pushed

\* the condition under which checkAndUpdateStability sets item.stable
RP_becomesStable(item, recentChanges) ==
    /\ ~item.stable
    /\ item.comparisons >= RandomPairConfig.minimumComparisons
    /\ Len(recentChanges) >= RandomPairConfig.stableComparisonsThreshold
    /\ \A i \in 1..Len(recentChanges) :
          recentChanges[i] <= RandomPairConfig.ratingChangeThreshold

\* stability recomputed from the window at every update instead of set once
RP_updateRating_Reevaluates(item, recentChanges, opponentRating, score) ==
    LET newRating == Max(RandomPairConfig.minRating,
                         item.currentRating
                           + RP_ratingChange(item.currentRating, opponentRating, score))
        changes == RP_pushChange(recentChanges, Abs(newRating - item.currentRating))
        rated == [item EXCEPT !.currentRating = newRating]
    IN  IF RP_becomesStable([rated EXCEPT !.stable = FALSE], changes)
        THEN [item |-> [rated EXCEPT !.stable = TRUE], changes |-> <<>>]
        ELSE [item |-> [rated EXCEPT !.stable = FALSE], changes |-> changes]

\* updateRating: the item and its window of recent rating changes afterwards
RP_updateRating(item, recentChanges, opponentRating, score) ==
    LET newRating == Max(RandomPairConfig.minRating,
                         item.currentRating
                           + RP_ratingChange(item.currentRating, opponentRating, score))
        changes == RP_pushChange(recentChanges, Abs(newRating - item.currentRating))
        rated == [item EXCEPT !.currentRating = newRating]
    IN  IF RP_becomesStable(rated, changes)
        THEN [item |-> [rated EXCEPT !.stable = TRUE], changes |-> <<>>]
        ELSE [item |-> rated, changes |-> changes]

RP_addComparisonResultError(its, itemId1, itemId2) ==
    IF ~Has(its, itemId1) \/ ~Has(its, itemId2) THEN "NotFound"
    ELSE IF Get(its, itemId1).id = Get(its, itemId2).id THEN "SelfComparison"
    ELSE "none"

\* the two items and their windows after an accepted comparison
RP_compared(its, changes, itemId1, itemId2, result) ==
    LET item1 == Get(its, itemId1)
        item2 == Get(its, itemId2)
        u1 == RP_updateRating(CountOutcome(item1, result), changes[itemId1],
                              item2.currentRating, ActualScore(result))
        u2 == RP_updateRating(CountOutcome(item2, Opposite(result)), changes[itemId2],
                              item1.currentRating, ActualScore(Opposite(result)))
    IN  [item1 |-> [u1.item EXCEPT !.comparisons = @ + 1],
         item2 |-> [u2.item EXCEPT !.comparisons = @ + 1],
         changes |-> [changes EXCEPT ![itemId1] = u1.changes, ![itemId2] = u2.changes]]

RP_addComparisonResultItems(its, changes, itemId1, itemId2, result) ==
    IF RP_addComparisonResultError(its, itemId1, itemId2) # "none" THEN its
    ELSE LET c == RP_compared(its, changes, itemId1, itemId2, result)
         IN  Put(Put(its, c.item1), c.item2)

RP_addComparisonResultChanges(its, changes, itemId1, itemId2, result) ==
    IF RP_addComparisonResultError(its, itemId1, itemId2) # "none" THEN changes
    ELSE RP_compared(its, changes, itemId1, itemId2, result).changes

\* every pair getRandomPair can draw: two distinct items that are not stable
RP_getNextComparison(its) ==
    LET activeItems == {its[i].id : i \in {j \in 1..Len(its) : ~its[j].stable}}
    IN  IF Cardinality(activeItems) < 2 THEN {<<>>}
        ELSE {<<x, y>> : x \in activeItems, y \in activeItems} \ {<<x, x>> : x \in activeItems}

RP_getProgress(its) ==
    IF Len(its) = 0 THEN <<1, 1>>
    ELSE <<Cardinality({i \in 1..Len(its) : its[i].stable}), Len(its)>>

\* getRankings: the array updateSortedItems stored, as the ids of its items
RP_getRankings(sorted) == sorted

\* items of an initial list, as a caller builds them
GivenItem(id, rating, comparisons, wins, losses, ties, stable) ==
    [id |-> id, initialRating |-> rating, currentRating |-> rating,
     comparisons |-> comparisons, wins |-> wins, losses |-> losses, ties |-> ties,
     stable |-> stable, lastComparisonTime |-> <<>>]

\* initial item lists handed to the random-pair constructor
InitialListsRandomPair ==
    { <<>>,
      <<GivenItem("a", 1500000, 10, 0, 0, 10, TRUE),
        GivenItem("b", 1500000, 10, 0, 0, 0, FALSE)>> }

RP_Init ==
    \E initialItems \in InitialListsRandomPair :
        /\ cls = "RandomPair"
        /\ config = RP_constructConfig(GivenConfigRandomPair)
        /\ items = RP_constructItems(<<>>, initialItems)
        /\ recentRatingChanges = [id \in IdsWeighted |-> <<>>]
        /\ sortedItems = RP_getSortedItems(items)
        /\ clock = 1
        /\ ret = Returned("constructor", <<>>, <<>>)

\* an addItem call of the random-pair class
RP_addItemCall(id, initialRating) ==
    /\ cls = "RandomPair"
    /\ LET err == RP_addItemError(items, id)
       IN  /\ items' = RP_addItemItems(items, id, initialRating)
           /\ clock' = IF err = "none" THEN clock + 1 ELSE clock
           /\ ret' = IF err = "none" THEN Returned("addItem", <<id>>, <<>>)
                     ELSE Threw("addItem", <<id>>, err)
    /\ sortedItems' = IF items' = items THEN sortedItems ELSE RP_getSortedItems(items')
    /\ UNCHANGED <<cls, config, recentRatingChanges>>

\* the call, as long as the number of accepted mutating calls is within its bound
RP_addItem(id, initialRating) ==
    /\ RP_addItemError(items, id) = "none" => clock <= MaxSteps
    /\ RP_addItemCall(id, initialRating)

\* a removeItem call of the random-pair class: the entry of the id in
\* recentRatingChanges stays
RP_removeItemCall(id) ==
    /\ cls = "RandomPair"
    /\ LET err == RP_removeItemError(items, id)
       IN  /\ items' = RP_removeItemItems(items, id)
           /\ clock' = IF err = "none" THEN clock + 1 ELSE clock
           /\ ret' = IF err = "none" THEN Returned("removeItem", <<id>>, <<>>)
                     ELSE Threw("removeItem", <<id>>, err)
    /\ sortedItems' = IF items' = items THEN sortedItems ELSE RP_getSortedItems(items')
    /\ UNCHANGED <<cls, config, recentRatingChanges>>

RP_removeItem(id) ==
    /\ RP_removeItemError(items, id) = "none" => clock <= MaxSteps
    /\ RP_removeItemCall(id)

\* addComparisonResult({itemId1, itemId2, result}) of the random-pair class
RP_addComparisonResultCall(itemId1, itemId2, result) ==
    /\ cls = "RandomPair"
    /\ LET err == RP_addComparisonResultError(items, itemId1, itemId2)
       IN  /\ items' = RP_addComparisonResultItems(items, recentRatingChanges,
                                                   itemId1, itemId2, result)
           /\ recentRatingChanges' =
                 RP_addComparisonResultChanges(items, recentRatingChanges,
                                               itemId1, itemId2, result)
           /\ clock' = IF err = "none" THEN clock + 1 ELSE clock
           /\ sortedItems' = IF err = "none" THEN RP_getSortedItems(items')
                             ELSE sortedItems
           /\ ret' = IF err = "none"
                     THEN Returned("addComparisonResult", <<itemId1, itemId2, result>>, <<>>)
                     ELSE Threw("addComparisonResult", <<itemId1, itemId2, result>>, err)
    /\ UNCHANGED <<cls, config>>

RP_addComparisonResult(itemId1, itemId2, result) ==
    /\ RP_addComparisonResultError(items, itemId1, itemId2) = "none" => clock <= MaxSteps
    /\ RP_addComparisonResultCall(itemId1, itemId2, result)

\* a getNextComparison call: it returns null or one of the pairs and changes nothing
RP_GetNextComparison ==
    /\ cls = "RandomPair"
    /\ \E pair \in RP_getNextComparison(items) : Len(pair) \in {0, 2}
    /\ UNCHANGED vars

\* a getProgress call: it returns a fraction and changes nothing
RP_GetProgress ==
    /\ cls = "RandomPair"
    /\ RP_getProgress(items)[1] <= RP_getProgress(items)[2]
    /\ UNCHANGED vars

\* a getRankings call: it returns the stored array and changes nothing
RP_GetRankings ==
    /\ cls = "RandomPair"
    /\ Len(RP_getRankings(sortedItems)) = Len(sortedItems)
    /\ UNCHANGED vars

\* a random-pair Ranker constructed with two items that were never compared
RP_InitDuel ==
    /\ cls = "RandomPair"
    /\ config = RP_constructConfig(GivenConfigRandomPair)
    /\ items = RP_constructItems(<<>>, <<GivenItem("a", 1500000, 0, 0, 0, 0, FALSE),
                                        GivenItem("b", 1500000, 0, 0, 0, 0, FALSE)>>)
    /\ recentRatingChanges = [id \in IdsWeighted |-> <<>>]
    /\ sortedItems = RP_getSortedItems(items)
    /\ clock = 1
    /\ ret = Returned("constructor", <<>>, <<>>)

\* addComparisonResult on the Ranker of two items
RP_DuelComparison(itemId1, itemId2, result) ==
    /\ RP_addComparisonResultError(items, itemId1, itemId2) = "none" => clock <= MaxStepsDuel
    /\ RP_addComparisonResultCall(itemId1, itemId2, result)

\* comparisons of the one item with the other only: both stay registered
RP_NextDuel ==
    \/ \E itemId1, itemId2 \in IdsRandomPair, result \in Results :
          itemId1 # itemId2 /\ RP_DuelComparison(itemId1, itemId2, result)
    \/ RP_GetNextComparison
    \/ RP_GetProgress
    \/ RP_GetRankings

\* a random-pair Ranker constructed with two items that were never compared and a
\* stableComparisonsThreshold above minimumComparisons
RP_InitReadd ==
    /\ cls = "RandomPair"
    /\ config = RP_constructConfig(GivenConfigReadd)
    /\ items = RP_constructItems(<<>>, <<GivenItem("a", 1500000, 0, 0, 0, 0, FALSE),
                                        GivenItem("b", 1500000, 0, 0, 0, 0, FALSE)>>)
    /\ recentRatingChanges = [id \in IdsWeighted |-> <<>>]
    /\ sortedItems = RP_getSortedItems(items)
    /\ clock = 1
    /\ ret = Returned("constructor", <<>>, <<>>)

\* the two items tie
RP_ReaddComparison ==
    /\ RP_addComparisonResultError(items, "a", "b") = "none" => clock <= MaxStepsReadd
    /\ RP_addComparisonResultCall("a", "b", "tie")

\* one of the items is removed
RP_ReaddRemove(id) ==
    /\ RP_removeItemError(items, id) = "none" => clock <= MaxStepsReadd
    /\ RP_removeItemCall(id)

\* and added again under its id, with the default rating
RP_ReaddAdd(id) ==
    /\ RP_addItemError(items, id) = "none" => clock <= MaxStepsReadd
    /\ RP_addItemCall(id, <<>>)

RP_NextReadd ==
    \/ RP_ReaddComparison
    \/ \E id \in IdsRandomPair : RP_ReaddRemove(id)
    \/ \E id \in IdsRandomPair : RP_ReaddAdd(id)

RP_Next ==
    \/ \E id \in IdsRandomPair, initialRating \in InitialRatings :
          RP_addItem(id, initialRating)
    \/ \E id \in IdsRandomPair : RP_removeItem(id)
    \/ \E itemId1, itemId2 \in IdsRandomPair, result \in Results :
          RP_addComparisonResult(itemId1, itemId2, result)
    \/ RP_GetNextComparison
    \/ RP_GetProgress
    \/ RP_GetRankings
    \/ \E id \in IdsRandomPair : GetItemHistory(id)

-----------------------------------------------------------------------------

(* Specifications: either class, and each class alone *)

Init == W_Init \/ RP_Init
Next == W_Next \/ RP_Next

Spec == Init /\ [][Next]_vars
SpecWeighted == W_Init /\ [][W_Next]_vars
SpecRandomPair == RP_Init /\ [][RP_Next]_vars
\* the weighted-selector class with one item winning against a weaker and a stronger one
\* the caller's loop, started right after construction
SpecWeightedLoop == (W_Init \/ W_InitGain) /\ [][W_NextLoop]_vars
SpecWeightedGain == W_InitGain /\ [][W_NextGain]_vars
\* the weighted-selector class with a caller that writes to returned item objects
SpecWeightedAliasing == W_Init /\ [][W_NextAliasing]_vars
\* the random-pair class holding two items, compared MaxStepsDuel times
SpecRandomPairReadd == RP_InitReadd /\ [][RP_NextReadd]_vars
SpecRandomPairDuel == RP_InitDuel /\ [][RP_NextDuel]_vars

-----------------------------------------------------------------------------
(* Properties *)

\* a step in which the weighted-selector addComparisonResult accepts the comparison
W_Accepted(itemId1, itemId2, result) ==
    /\ ret'.op = "addComparisonResult" /\ clock' = clock + 1
    /\ W_addComparisonResultError(items, itemId1, itemId2) = "none"
    /\ W_addComparisonResult(itemId1, itemId2, result)

\* a step in which the weighted-selector addComparisonResult throws
W_Rejected(itemId1, itemId2, result) ==
    /\ ret'.op = "addComparisonResult" /\ clock' = clock
    /\ W_addComparisonResultError(items, itemId1, itemId2) # "none"
    /\ W_addComparisonResult(itemId1, itemId2, result)

\* a step of either class in which addComparisonResult accepts a comparison
AcceptedStep ==
    clock' = clock + 1 /\ ret'.op = "addComparisonResult" /\ ret'.err = "none"

\* C1: a weighted-selector addComparisonResult call that throws (an id that is not
\* registered, or twice the same id) leaves every item of the registry as it was:
\* a step is a rejected call only if items' = items.
C1_RejectedComparisonChangesNothing ==
    [][\/ items' = items
       \/ \A itemId1, itemId2 \in IdsWeighted, result \in Results :
             ~W_Rejected(itemId1, itemId2, result)]_vars

\* a comparison naming an unregistered id was rejected while items are registered
C1_Witness ==
    /\ cls = "Weighted" /\ Len(items) >= 2
    /\ ret.op = "addComparisonResult" /\ ret.err = "NotFound"

\* C2 as claimed: addComparisonResult(X, X) throws the self-comparison error and
\* changes nothing, whether or not X is registered.
C2_SelfComparisonAlwaysSelfError ==
    [][\A X \in IdsWeighted, result \in Results :
          (ret'.op = "addComparisonResult" /\ W_addComparisonResult(X, X, result))
             => ret'.err = "SelfComparison" /\ items' = items]_vars

\* C2 as amended: addComparisonResult(X, X) always throws and changes nothing; the
\* error is the self-comparison error when X is registered and the not-found error
\* when it is not.
C2_SelfComparisonRejected ==
    [][ret'.op = "addComparisonResult" =>
          \A X \in IdsWeighted :
             \/ /\ ret'.err = IF Has(items, X) THEN "SelfComparison" ELSE "NotFound"
                /\ items' = items
             \/ \A result \in Results : ~W_addComparisonResult(X, X, result)]_vars

\* a self-comparison of a registered item was rejected
C2_Witness ==
    /\ cls = "Weighted" /\ Len(items) >= 1
    /\ ret.op = "addComparisonResult" /\ ret.err = "SelfComparison"

\* C3 as claimed: every registered item has currentRating >= minRating, whatever
\* addItem, removeItem and addComparisonResult calls were made.
C3_FloorInvariant ==
    \A i \in 1..Len(items) :
        items[i].currentRating >= OrElse(WeightedConfig.minRating, 0)

\* C4 as claimed: every registered item of either class, whatever the initial item
\* list and the calls made, has comparisons = wins + losses + ties.
C4_CounterConsistency ==
    \A i \in 1..Len(items) :
        items[i].comparisons = items[i].wins + items[i].losses + items[i].ties

\* C5: an accepted addComparisonResult(A, B, result) adds exactly 1 to comparisons of A
\* and of B and exactly 1 to one outcome counter of each (win: A.wins and B.losses,
\* loss: A.losses and B.wins, tie: both ties), and no step lowers a counter of an item
\* that stays registered.
C5_CountersStep ==
    [][/\ (ret'.op = "addComparisonResult" /\ clock' = clock + 1) =>
             \A A, B \in IdsWeighted, result \in Results :
                W_Accepted(A, B, result) =>
                   LET a == Get(items, A)      b == Get(items, B)
                       a2 == Get(items', A)    b2 == Get(items', B)
                       won(r) == IF r = "win" THEN 1 ELSE 0
                       lost(r) == IF r = "loss" THEN 1 ELSE 0
                       tied(r) == IF r = "tie" THEN 1 ELSE 0
                   IN  /\ a2.comparisons = a.comparisons + 1
                       /\ b2.comparisons = b.comparisons + 1
                       /\ a2.wins = a.wins + won(result)
                       /\ a2.losses = a.losses + lost(result)
                       /\ a2.ties = a.ties + tied(result)
                       /\ b2.wins = b.wins + lost(result)
                       /\ b2.losses = b.losses + won(result)
                       /\ b2.ties = b.ties + tied(result)
       /\ items' # items =>
             \A id \in IdsOf(items) \cap IdsOf(items') :
                /\ Get(items', id).comparisons >= Get(items, id).comparisons
                /\ Get(items', id).wins >= Get(items, id).wins
                /\ Get(items', id).losses >= Get(items, id).losses
                /\ Get(items', id).ties >= Get(items, id).ties]_vars

\* a win was recorded: some item has a win, another a loss
C5_Witness ==
    /\ cls = "Weighted"
    /\ ret.op = "addComparisonResult" /\ ret.err = "none"
    /\ \E i, j \in 1..Len(items) :
          i # j /\ items[i].wins >= 1 /\ items[j].losses >= 1

\* C6 as claimed: an accepted addComparisonResult returns the sum of the absolute
\* changes of the two clamped ratings.
C6_ReturnsRatingDelta ==
    [][\A A, B \in IdsWeighted, result \in Results :
          W_Accepted(A, B, result) =>
             ret'.val = << Abs(Get(items', A).currentRating - Get(items, A).currentRating)
                           + Abs(Get(items', B).currentRating - Get(items, B).currentRating) >>]_vars

\* C7 as claimed: getItemHistory(id) gives, for every registered item, a history with
\* as many entries as the item has comparisons.
C7_HistoryLengthIsComparisons ==
    \A i \in 1..Len(items) :
        LET history == getItemHistory(items, items[i].id)
        IN  history.err = "none" /\ Len(history.val) = items[i].comparisons

\* C8 as claimed: an item that getProgress counted as stable is no longer counted once
\* a comparison has changed its rating by at least ratingChangeThreshold.
C8_StabilityReevaluated ==
    [][\A A, B \in IdsWeighted, result \in Results :
          W_Accepted(A, B, result) =>
             \A id \in {A, B} :
                (/\ id \in W_stableItems(items)
                 /\ Abs(Get(items', id).currentRating - Get(items, id).currentRating)
                      >= WeightedConfig.ratingChangeThreshold)
                   => id \notin W_stableItems(items')]_vars

\* C9: in both classes an item whose stable flag is set still has it set after any
\* accepted addComparisonResult call.
C9_StableIsPermanent ==
    [][AcceptedStep =>
          \A i \in 1..Len(items) :
             items[i].stable =>
                Has(items', items[i].id) /\ Get(items', items[i].id).stable]_vars

\* a random-pair item that became stable was compared again and its rating moved
C9_Witness ==
    /\ cls = "RandomPair"
    /\ ret.op = "addComparisonResult" /\ ret.err = "none"
    /\ \E i \in 1..Len(items) :
          /\ items[i].stable
          /\ recentRatingChanges[items[i].id] # <<>>
          /\ items[i].currentRating # items[i].initialRating

\* C10: the weighted-selector getNextComparison returns null exactly when fewer than
\* two items are registered or every item (so the least compared one) has at least
\* minimumComparisons comparisons.
C10_NullIffSaturated ==
    cls = "Weighted" =>
       \A delay \in Delays :
          (W_getNextComparison(items, clock + delay) = <<>>)
             <=> (\/ Len(items) < 2
                  \/ \A i \in 1..Len(items) :
                        items[i].comparisons >= WeightedConfig.minimumComparisons)

\* three registered items, all compared often enough: getNextComparison gives null
C10_Witness ==
    /\ cls = "Weighted" /\ Len(items) = 3
    /\ W_getNextComparison(items, clock) = <<>>

\* getNextComparison returns null (for the random-pair class: whatever it draws)
NextComparisonIsNull ==
    IF cls = "Weighted"
    THEN \A delay \in Delays : W_getNextComparison(items, clock + delay) = <<>>
    ELSE RP_getNextComparison(items) = {<<>>}

\* the minimumComparisons the Ranker was configured with
MinimumComparisons ==
    IF cls = "Weighted" THEN OrElse(WeightedConfig.minimumComparisons, 0)
    ELSE RandomPairConfig.minimumComparisons

\* C11 as claimed: with exactly two registered items, once minimumComparisons
\* comparisons were made between them, whatever their outcomes, getNextComparison
\* returns null.
C11_SaturationTermination ==
    (/\ Len(items) = 2
     /\ \A i \in 1..2 :
           /\ items[i].comparisons = MinimumComparisons
           /\ items[i].wins + items[i].losses + items[i].ties = MinimumComparisons
           /\ items[i].wins = items[3 - i].losses
           /\ items[i].ties = items[3 - i].ties)
       => NextComparisonIsNull

\* C12: whenever the weighted-selector getNextComparison returns a pair (a, b), a and
\* b are the ids of two distinct registered items and no registered item has fewer
\* comparisons than a.
C12_PairIsLeastComparedAndOther ==
    cls = "Weighted" =>
       \A delay \in Delays :
          LET pair == W_getNextComparison(items, clock + delay)
          IN  pair # <<>> =>
                 /\ Len(pair) = 2
                 /\ pair[1] # pair[2]
                 /\ Has(items, pair[1]) /\ Has(items, pair[2])
                 /\ \A i \in 1..Len(items) :
                       Get(items, pair[1]).comparisons <= items[i].comparisons

\* a pair is returned whose first item is not the first of the Map, after comparisons
\* left the items with different counters
C12_Witness ==
    /\ cls = "Weighted" /\ Len(items) = 3
    /\ ret.op = "addComparisonResult" /\ ret.err = "none"
    /\ W_getNextComparison(items, clock) # <<>>
    /\ W_getNextComparison(items, clock)[1] # items[1].id
    /\ \E i \in 1..Len(items) :
          items[i].comparisons > Get(items, W_getNextComparison(items, clock)[1]).comparisons

\* the composite of C13, times 10000:
\*   0.4 / (1 + |R_a - R_o| / 400) + 0.4 / (1 + |comparisons_a - comparisons_o|)
\*     + 0.2 * recency(o)
C13_Composite(item, opponent, now) ==
    LET ratingDifference == Abs(item.currentRating - opponent.currentRating)
        comparisonDifference == Abs(item.comparisons - opponent.comparisons)
    IN  4 * ((1000 * 400000) \div (400000 + ratingDifference))
          + 4 * (1000 \div (1 + comparisonDifference))
          + 2 * W_getTimeScore(opponent, now)

\* C13 as claimed: the opponent b that getNextComparison returns for the least
\* compared item a has the highest 0.4 / 0.4 / 0.2 composite of rating closeness,
\* comparison closeness and recency among the registered items other than a.  (The
\* three factors are truncated to thousandths, which moves a composite by less than
\* 10 units of 1/10000: only a lead larger than that counts.)
C13_OpponentMaximisesComposite ==
    cls = "Weighted" =>
       \A delay \in Delays :
          LET now == clock + delay
              pair == W_getNextComparison(items, now)
          IN  pair # <<>> =>
                 \A i \in 1..Len(items) :
                    items[i].id # pair[1] =>
                       C13_Composite(Get(items, pair[1]), items[i], now)
                          <= C13_Composite(Get(items, pair[1]), Get(items, pair[2]), now)
                               + 10

\* C14 as claimed: whenever at least two registered items are not stable, the pair the
\* weighted-selector getNextComparison returns contains no item whose stable flag is
\* set.
C14_PairAvoidsStableItems ==
    cls = "Weighted" =>
       \A delay \in Delays :
          LET pair == W_getNextComparison(items, clock + delay)
          IN  (/\ pair # <<>>
               /\ Cardinality(IdsOf(items) \ W_stableItems(items)) >= 2)
                 => /\ pair[1] \notin W_stableItems(items)
                    /\ pair[2] \notin W_stableItems(items)

\* what getRankings returns in the current state, as the ids of the items
Rankings ==
    IF cls = "Weighted" THEN W_getRankings(items) ELSE RP_getRankings(sortedItems)

\* C15: in both classes getRankings returns exactly the registered items, each once,
\* by non-increasing current currentRating, items of equal rating in the order in
\* which they were inserted in the registry.
C15_RankingsSortedAndComplete ==
    /\ Len(Rankings) = Len(items)
    /\ \A i \in 1..Len(items) : \E j \in 1..Len(Rankings) : Rankings[j] = items[i].id
    /\ \A i, j \in 1..Len(Rankings) :
          i < j =>
             /\ Has(items, Rankings[i]) /\ Has(items, Rankings[j])
             /\ Rankings[i] # Rankings[j]
             /\ Get(items, Rankings[i]).currentRating >= Get(items, Rankings[j]).currentRating
             /\ Get(items, Rankings[i]).currentRating = Get(items, Rankings[j]).currentRating
                   => IndexOf(items, Rankings[i]) < IndexOf(items, Rankings[j])

\* after some calls two items have the same rating and the ranking is not the
\* insertion order
C15_Witness ==
    /\ clock > 1 /\ Len(items) >= 3
    /\ \E i, j \in 1..Len(items) :
          i # j /\ items[i].currentRating = items[j].currentRating
    /\ Rankings # [i \in 1..Len(items) |-> items[i].id]

\* what getItemStats (of every registered id), getRankings, getProgress and
\* getNextComparison return on the registry its
W_Observations(its, now) ==
    <<its, W_getRankings(its), W_getProgress(its),
      [delay \in Delays |-> W_getNextComparison(its, now + delay)]>>

\* C16 as claimed: assigning to a field of an item object that getItemStats,
\* getAllItems or getRankings of the weighted-selector class returned changes nothing
\* of what getItemStats, getRankings, getProgress and getNextComparison return later.
C16_ReturnedItemsAreCopies ==
    [][\A method \in ItemReaders, id \in IdsWeighted, field \in WrittenFields :
          W_WriteToReturned(method, id, field)
             => W_Observations(items', clock') = W_Observations(items, clock)]_vars

\* the items of the registry other than id are the same, in the same order, in its2
OthersUnchanged(its, its2, id) == SeqFilterOut(its2, id) = SeqFilterOut(its, id)

\* C17: addItem of an id that is registered throws the duplicate-item error and
\* leaves the registry as it was (as many items, the registered item with its rating,
\* counters, stable flag and lastComparisonTime), whatever initialRating is passed.
C17_DuplicateAddChangesNothing ==
    [][ret'.op = "addItem" =>
          \A id \in IdsWeighted, initialRating \in InitialRatings :
             (Has(items, id) /\ W_addItem(id, initialRating))
                => /\ ret'.err = "Duplicate"
                   /\ Len(items') = Len(items)
                   /\ Get(items', id) = Get(items, id)
                   /\ items' = items]_vars

\* addItem of a registered item that was compared before was rejected
C17_Witness ==
    /\ cls = "Weighted"
    /\ ret.op = "addItem" /\ ret.err = "Duplicate"
    /\ \E i \in 1..Len(items) :
          items[i].comparisons >= 1 /\ items[i].currentRating # items[i].initialRating

\* C18: addItem(id, r) of an id that is not registered adds one item, with
\* initialRating = currentRating = r when r is given (r = 0 too) and the configured
\* defaultInitialRating when it is omitted, counters 0, stable false and
\* lastComparisonTime null; the items registered before are unchanged.
C18_AddRegistersFreshItem ==
    [][ret'.op = "addItem" =>
          \A id \in IdsWeighted, initialRating \in InitialRatings :
             (~Has(items, id) /\ W_addItem(id, initialRating))
                => LET r == IF initialRating = <<>> THEN WeightedConfig.defaultInitialRating
                            ELSE initialRating[1]
                   IN  /\ ret'.err = "none"
                       /\ Len(items') = Len(items) + 1
                       /\ Has(items', id)
                       /\ Get(items', id) =
                             [id |-> id, initialRating |-> r, currentRating |-> r,
                              comparisons |-> 0, wins |-> 0, losses |-> 0, ties |-> 0,
                              stable |-> FALSE, lastComparisonTime |-> <<>>]
                       /\ OthersUnchanged(items, items', id)]_vars

\* an item was added with initialRating 0 next to an item that was compared
C18_Witness ==
    /\ cls = "Weighted"
    /\ ret.op = "addItem" /\ ret.err = "none"
    /\ Len(items) >= 2
    /\ items[Len(items)].currentRating = 0 /\ items[Len(items)].initialRating = 0
    /\ \E i \in 1..Len(items) : items[i].comparisons >= 1

\* C19: removeItem of an id that is not registered throws the item-not-found error
\* and changes nothing; of a registered id, it removes that one item and leaves the
\* others unchanged.  While an id is not registered, getItemStats of it and
\* addComparisonResult naming it throw not-found, and only addItem registers an id.
C19_RemoveItem ==
    [][/\ ret'.op = "removeItem" =>
             \A id \in IdsWeighted :
                W_removeItem(id) =>
                   IF ~Has(items, id)
                   THEN ret'.err = "NotFound" /\ items' = items
                   ELSE /\ ret'.err = "none"
                        /\ Len(items') = Len(items) - 1
                        /\ ~Has(items', id)
                        /\ OthersUnchanged(items, items', id)
       /\ \A id \in IdsWeighted :
             ~Has(items', id) =>
                /\ W_getItemStats(items', id).err = "NotFound"
                /\ \A other \in IdsWeighted :
                      /\ W_addComparisonResultError(items', id, other) = "NotFound"
                      /\ W_addComparisonResultError(items', other, id) = "NotFound"
       /\ \A id \in IdsWeighted :
             (~Has(items, id) /\ Has(items', id)) => (ret'.op = "addItem" /\ ret'.err = "none")]_vars

\* an item that was compared was removed from among three; a comparison naming it
\* was rejected afterwards
C19_Witness ==
    /\ cls = "Weighted" /\ Len(items) = 2
    /\ ret.op = "addComparisonResult" /\ ret.err = "NotFound"
    /\ \E i \in 1..Len(items) : items[i].comparisons >= 1
    /\ \E id \in IdsWeighted : ~Has(items, id)
    /\ clock >= 3

\* C20 as claimed: in an accepted comparison the sign of each item's rating change
\* is the sign of (actualScore - expectedScore); a winner's rating does not decrease
\* and a loser's does not increase, whatever the ratings, at or below the floor too.
C20_ChangeHasSignOfSurprise ==
    [][(ret'.op = "addComparisonResult" /\ clock' = clock + 1) =>
          \A A, B \in IdsWeighted, result \in Results :
             W_Accepted(A, B, result) =>
                LET a == Get(items, A)
                    b == Get(items, B)
                    expectedScore1 == getExpectedScore(a.currentRating, b.currentRating)
                    expectedScore2 == 1000 - expectedScore1
                IN  /\ Sign(Get(items', A).currentRating - a.currentRating)
                         = Sign(ActualScore(result) - expectedScore1)
                    /\ Sign(Get(items', B).currentRating - b.currentRating)
                         = Sign(ActualScore(Opposite(result)) - expectedScore2)]_vars

\* C21 as claimed: an accepted tie between two items of equal currentRating leaves
\* both ratings exactly as they were and adds 1 to ties and to comparisons of both.
C21_TieNeutrality ==
    [][(ret'.op = "addComparisonResult" /\ clock' = clock + 1) =>
          \A A, B \in IdsWeighted :
             (/\ W_Accepted(A, B, "tie")
              /\ Get(items, A).currentRating = Get(items, B).currentRating)
                => \A id \in {A, B} :
                      /\ Get(items', id).currentRating = Get(items, id).currentRating
                      /\ Get(items', id).ties = Get(items, id).ties + 1
                      /\ Get(items', id).comparisons = Get(items, id).comparisons + 1]_vars

\* C22 as claimed: in every accepted comparison the currentRating of each of the two
\* items changes by at most kFactor in absolute value.
C22_ChangeBoundedByKFactor ==
    [][(ret'.op = "addComparisonResult" /\ clock' = clock + 1) =>
          \A A, B \in IdsWeighted, result \in Results :
             W_Accepted(A, B, result) =>
                \A id \in {A, B} :
                   Abs(Get(items', id).currentRating - Get(items, id).currentRating)
                      <= 1000 * OrElse(WeightedConfig.kFactor, 32)]_vars

\* what a win against opponent adds to the currentRating of item
WinGain(its, item, opponent) ==
    Get(W_comparedItems(its, item, opponent, "win", clock), item).currentRating
       - Get(its, item).currentRating

\* the new rating of a winner is not clamped: the winner is not below the floor
NotClamped(its, item) ==
    Get(its, item).currentRating >= OrElse(WeightedConfig.minRating, 0)

C24_ProgressIsStableFraction ==
    (cls = "Weighted" /\ Constructed) =>
       LET progress == W_getProgress(items)
           stable == {i \in 1..Len(items) : items[i].stable}
       IN  /\ progress[2] > 0
           /\ 0 <= progress[1] /\ progress[1] <= progress[2]
           /\ IF Len(items) = 0 THEN progress[1] = progress[2]
              ELSE progress[1] * Len(items) = Cardinality(stable) * progress[2]

\* the last item was removed: the registry is empty again
C24_Witness ==
    /\ cls = "Weighted" /\ Len(items) = 0
    /\ ret.op = "removeItem" /\ ret.err = "none"

\* the results a getNextComparison call can return in the current state
NextComparisonResults ==
    IF cls = "Weighted" THEN {W_getNextComparison(items, clock)}
    ELSE RP_getNextComparison(items)

\* C25 as claimed: in both classes getNextComparison, called again on the same
\* registry at the same time, returns the same result.
C25_NextComparisonDeterministic ==
    Constructed => Cardinality(NextComparisonResults) = 1

C27_ComparisonFrame ==
    [][(ret'.op = "addComparisonResult" /\ clock' = clock + 1) =>
          \A A, B \in IdsWeighted, result \in Results :
             W_Accepted(A, B, result) =>
                /\ Len(items') = Len(items)
                /\ \A i \in 1..Len(items) :
                      /\ items'[i].id = items[i].id
                      /\ items'[i].initialRating = items[i].initialRating
                      /\ items[i].id \notin {A, B} => items'[i] = items[i]]_vars

\* the second and the third of three items were compared; the first had been
\* compared before
C27_Witness ==
    /\ cls = "Weighted" /\ Len(items) = 3
    /\ ret.op = "addComparisonResult" /\ ret.err = "none"
    /\ items[1].comparisons = 1 /\ items[1].lastComparisonTime = <<1>>
    /\ items[2].lastComparisonTime = <<clock - 1>>
    /\ items[3].lastComparisonTime = <<clock - 1>>
    /\ clock >= 3

\* C28: in the weighted-selector class, a caller that keeps recording a comparison
\* of exactly the pair getNextComparison returns, adding and removing nothing, is
\* told null after at most items.size * minimumComparisons recorded comparisons:
\* once that many are recorded (clock - 1 counts them), getNextComparison returns
\* null, and until then every comparison the loop records is accepted.
C28_SuggestionLoopConverges ==
    (cls = "Weighted" /\ Constructed /\ Len(items) >= 2) =>
       /\ clock - 1 >= Len(items) * MinimumComparisons => NextComparisonIsNull
       /\ ret.err = "none"

\* the loop over three items ended after more comparisons than the three it takes at
\* least
C28_Witness ==
    /\ cls = "Weighted" /\ Len(items) = 3
    /\ ret.op = "addComparisonResult" /\ ret.err = "none"
    /\ clock - 1 > 3
    /\ NextComparisonIsNull

\* C30: right after the weighted-selector constructor has run on a list of distinct
\* ids, every item has comparisons, wins, losses and ties 0, stable false, no
\* lastComparisonTime, and currentRating equal to its initialRating (the default when
\* the list gave none), whatever counters, flag and currentRating the list carried; a
\* list that repeats an id makes the constructor throw the duplicate-item error.
C30_ConstructorStartsItemsFresh ==
    (cls = "Weighted" /\ ret.op = "constructor") =>
       \E initialItems \in InitialListsWeighted :
          IF \A i, j \in 1..Len(initialItems) :
                initialItems[i].id = initialItems[j].id => i = j
          THEN /\ ret.err = "none"
               /\ Len(items) = Len(initialItems)
               /\ \A i \in 1..Len(items) :
                     LET rating == IF initialItems[i].initialRating = <<>>
                                   THEN WeightedConfig.defaultInitialRating
                                   ELSE initialItems[i].initialRating[1]
                     IN  /\ items[i].id = initialItems[i].id
                         /\ items[i].initialRating = rating
                         /\ items[i].currentRating = rating
                         /\ items[i].comparisons = 0 /\ items[i].wins = 0
                         /\ items[i].losses = 0 /\ items[i].ties = 0
                         /\ ~items[i].stable
                         /\ items[i].lastComparisonTime = <<>>
          ELSE ret.err = "Duplicate"

\* the Ranker built from the list whose first item carried 5 comparisons, the stable
\* flag and a currentRating of 1700 next to its initialRating of 1516
C30_Witness ==
    /\ cls = "Weighted" /\ ret.op = "constructor" /\ ret.err = "none"
    /\ Len(items) = 3
    /\ items[1].initialRating = 1516000

\* C29 as claimed: in the random-pair class an item added again after its removal
\* becomes stable when a freshly added one would: not before its own comparisons
\* since it was added have filled the window of stableComparisonsThreshold rating
\* changes (and passed minimumComparisons).
C29_ReaddedItemBehavesFresh ==
    cls = "RandomPair" =>
       \A i \in 1..Len(items) :
          items[i].stable =>
             /\ items[i].comparisons >= RandomPairConfig.stableComparisonsThreshold
             /\ items[i].comparisons > RandomPairConfig.minimumComparisons

====
